---- MODULE Spec2Model ----
(***************************************************************************)
(* Model of clean_report.py: filter_report(input_path, output_path) and    *)
(* the command-line entry point.  A str is a sequence of code points and   *)
(* the content of a file a sequence of bytes (both sequences of numbers),  *)
(* so that decoding, split, join, search and replace are computed on the   *)
(* characters as Python computes them.                                     *)
(***************************************************************************)
EXTENDS Integers, Sequences, FiniteSets, TLC

(* ------------------------------------------------------------------ *)
(* Bounds of the model                                                 *)
(* ------------------------------------------------------------------ *)

\* Number of tokens an input text of SpecFilter and SpecRerun is built
\* from.
MaxTokens == 4

\* Number of command-line arguments after the program name (Spec).
MaxArgs == 3

(* ------------------------------------------------------------------ *)
(* Literals of the program                                             *)
(* ------------------------------------------------------------------ *)

\* '\n---'
SEP == <<10, 45, 45, 45>>

\* "#### Magic value"
MARK == <<35, 35, 35, 35, 32, 77, 97, 103, 105, 99, 32, 118, 97, 108, 117, 101>>

\* "- **Issues Found:** "  (the literal part of the regular expression and
\* of both f-strings)
LABEL ==
    <<45, 32, 42, 42, 73, 115, 115, 117, 101, 115, 32, 70, 111, 117, 110, 100, 58, 42, 42, 32>>

\* The code points of the characters '\n', '\r', '-' and '0'
LF == <<10>>

CR == <<13>>

MINUS == <<45>>

ZERO == <<48>>

\* The digit zero of every script of Unicode 14 (the version of the
\* interpreter's unicodedata): the nine characters after each are its
\* digits one to nine.
DigitZeros ==
    {48, 1632, 1776, 1984, 2406, 2534, 2662, 2790, 2918, 3046,
     3174, 3302, 3430, 3558, 3664, 3792, 3872, 4160, 4240, 6112,
     6160, 6470, 6608, 6784, 6800, 6992, 7088, 7232, 7248, 42528,
     43216, 43264, 43472, 43504, 43600, 44016, 65296, 66720, 68912, 69734,
     69872, 69942, 70096, 70384, 70736, 70864, 71248, 71360, 71472, 71904,
     72016, 72784, 73040, 73120, 92768, 92864, 93008, 120782, 120792, 120802,
     120812, 120822, 123200, 123632, 125264, 130032}

\* \d of the regular expression (a str pattern): every decimal digit
\* (category Nd) of Unicode
Digits == UNION {{z + d : d \in 0..9} : z \in DigitZeros}

(* ------------------------------------------------------------------ *)
(* String functions of Python, on character sequences                  *)
(* ------------------------------------------------------------------ *)

SetMin(S) == CHOOSE x \in S : \A y \in S : x <= y

\* str.find(pat, from): the least index >= from where pat occurs, 0 if none.
Find(s, pat, from) ==
    LET hits == {i \in from .. (Len(s) - Len(pat) + 1) :
                    s[i] = pat[1] /\ SubSeq(s, i, i + Len(pat) - 1) = pat}
    IN IF hits = {} THEN 0 ELSE SetMin(hits)

\* pat in s
Contains(s, pat) == Find(s, pat, 1) # 0

\* s[i:] with a 1-based index
From(s, i) == SubSeq(s, i, Len(s))

\* s.split(sep): cut at the occurrences of sep, left to right, not
\* overlapping; one more element than occurrences.
RECURSIVE Split(_, _)
Split(s, sep) ==
    LET i == Find(s, sep, 1)
    IN IF i = 0 THEN <<s>>
       ELSE <<SubSeq(s, 1, i - 1)>> \o Split(From(s, i + Len(sep)), sep)

\* sep.join(list)
RECURSIVE Join(_, _)
Join(sep, list) ==
    IF list = <<>> THEN <<>>
    ELSE IF Len(list) = 1 THEN list[1]
    ELSE list[1] \o sep \o Join(sep, Tail(list))

\* s.replace(old, new): every occurrence, left to right, not overlapping.
RECURSIVE Replace(_, _, _)
Replace(s, old, new) ==
    LET i == Find(s, old, 1)
    IN IF i = 0 THEN s
       ELSE SubSeq(s, 1, i - 1) \o new \o Replace(From(s, i + Len(old)), old, new)

\* int() of one decimal digit, of any script
DigitVal(c) == CHOOSE d \in 0..9 : (c - d) \in DigitZeros

\* int(digits)
RECURSIVE ParseInt(_)
ParseInt(ds) ==
    IF ds = <<>> THEN 0
    ELSE 10 * ParseInt(SubSeq(ds, 1, Len(ds) - 1)) + DigitVal(ds[Len(ds)])

\* str(n) of a non-negative integer
RECURSIVE StrNat(_)
StrNat(n) ==
    IF n < 10 THEN <<ZERO[1] + n>>
    ELSE StrNat(n \div 10) \o <<ZERO[1] + (n % 10)>>

\* str(n) as the f-string formats it
Str(n) == IF n < 0 THEN MINUS \o StrNat(-n) ELSE StrNat(n)

\* The maximal run of digits of s that starts at index i (greedy \d+):
\* it ends before the first character from i on that is not a digit.
DigitRun(s, i) ==
    LET stops == {j \in i..Len(s) : s[j] \notin Digits}
    IN SubSeq(s, i, IF stops = {} THEN Len(s) ELSE SetMin(stops) - 1)

\* re.search(r'- \*\*Issues Found:\*\* (\d+)', s): the leftmost position
\* where the label is followed by a digit; group(1) is the digit run.
ReSearch(s) ==
    LET hits == {i \in 1 .. (Len(s) - Len(LABEL)) :
                    /\ s[i] = LABEL[1]
                    /\ SubSeq(s, i, i + Len(LABEL) - 1) = LABEL
                    /\ s[i + Len(LABEL)] \in Digits}
    IN IF hits = {} THEN [found |-> FALSE, start |-> 0, group1 |-> <<>>]
       ELSE LET i == SetMin(hits)
            IN [found |-> TRUE, start |-> i,
                group1 |-> DigitRun(s, i + Len(LABEL))]

(* ------------------------------------------------------------------ *)
(* Text-mode file I/O (open(path, 'r') and open(path, 'w')), on POSIX  *)
(* with UTF-8 as the locale encoding                                   *)
(* ------------------------------------------------------------------ *)

\* A continuation byte of UTF-8
IsCont(b) == b \in 128..191

\* The length of the well-formed UTF-8 sequence that starts at bs[i];
\* 0 when there is none (the strict decoder raises).
Utf8Len(bs, i) ==
    LET b == bs[i]
        n == Len(bs)
    IN IF b < 128 THEN 1
       ELSE IF b \in 194..223
            THEN IF i + 1 <= n /\ IsCont(bs[i + 1]) THEN 2 ELSE 0
       ELSE IF b \in 224..239
            THEN IF /\ i + 2 <= n
                    /\ bs[i + 1] \in (IF b = 224 THEN 160..191
                                      ELSE IF b = 237 THEN 128..159 ELSE 128..191)
                    /\ IsCont(bs[i + 2])
                 THEN 3 ELSE 0
       ELSE IF b \in 240..244
            THEN IF /\ i + 3 <= n
                    /\ bs[i + 1] \in (IF b = 240 THEN 144..191
                                      ELSE IF b = 244 THEN 128..143 ELSE 128..191)
                    /\ IsCont(bs[i + 2])
                    /\ IsCont(bs[i + 3])
                 THEN 4 ELSE 0
       ELSE 0

\* The code point of the well-formed sequence of k bytes at bs[i]
CodePoint(bs, i, k) ==
    CASE k = 1 -> bs[i]
      [] k = 2 -> (bs[i] - 192) * 64 + (bs[i + 1] - 128)
      [] k = 3 -> (bs[i] - 224) * 4096 + (bs[i + 1] - 128) * 64 + (bs[i + 2] - 128)
      [] k = 4 -> (bs[i] - 240) * 262144 + (bs[i + 1] - 128) * 4096
                     + (bs[i + 2] - 128) * 64 + (bs[i + 3] - 128)

\* bytes.decode('utf-8'), errors='strict': ok is FALSE when it raises
\* UnicodeDecodeError.
RECURSIVE Decode(_)
Decode(bs) ==
    LET high == {i \in 1..Len(bs) : bs[i] >= 128}
    IN IF high = {} THEN [ok |-> TRUE, text |-> bs]
       ELSE LET i == SetMin(high)
                k == Utf8Len(bs, i)
            IN IF k = 0 THEN [ok |-> FALSE, text |-> <<>>]
               ELSE LET rest == Decode(From(bs, i + k))
                    IN [ok |-> rest.ok,
                        text |-> SubSeq(bs, 1, i - 1) \o <<CodePoint(bs, i, k)>>
                                     \o rest.text]

\* The UTF-8 bytes of one code point
EncodeChar(c) ==
    IF c < 128 THEN <<c>>
    ELSE IF c < 2048 THEN <<192 + (c \div 64), 128 + (c % 64)>>
    ELSE IF c < 65536
         THEN <<224 + (c \div 4096), 128 + ((c \div 64) % 64), 128 + (c % 64)>>
    ELSE <<240 + (c \div 262144), 128 + ((c \div 4096) % 64),
           128 + ((c \div 64) % 64), 128 + (c % 64)>>

\* str.encode('utf-8')
RECURSIVE Encode(_)
Encode(text) ==
    LET high == {i \in 1..Len(text) : text[i] >= 128}
    IN IF high = {} THEN text
       ELSE LET i == SetMin(high)
            IN SubSeq(text, 1, i - 1) \o EncodeChar(text[i]) \o Encode(From(text, i + 1))

\* Universal newlines on reading (newline=None): '\r\n' and a lone '\r'
\* both arrive as '\n'.
RECURSIVE TranslateNewlines(_)
TranslateNewlines(text) ==
    LET i == Find(text, CR, 1)
    IN IF i = 0 THEN text
       ELSE SubSeq(text, 1, i - 1) \o LF \o
            TranslateNewlines(From(text, IF i < Len(text) /\ text[i + 1] = LF[1]
                                         THEN i + 2 ELSE i + 1))

\* f.read() of a file opened in text mode raises UnicodeDecodeError
\* unless the bytes decode.
Decodable(bytes) == Decode(bytes).ok

\* f.read() of a file of decodable bytes, opened in text mode
ReadText(bytes) == TranslateNewlines(Decode(bytes).text)

\* os.linesep on POSIX
LineSep == LF

\* The bytes f.write(text) produces in text mode with the default
\* newline=None: every '\n' is written as os.linesep.
WriteText(text) == Encode(Replace(text, LF, LineSep))

\* A path of the file system:
\*   kind      "file", "dir", or "absent"
\*   parent    what the directory part of the path is: "ok" (a directory
\*             that may be searched and written), "readonly" (searched,
\*             not written), "nosearch" (not searched), "missing", or
\*             "notdir" (a regular file)
\*   readable, writable   the permissions of a file for the process
\*   data      the bytes of a file
File(k, p, r, w, d) ==
    [kind |-> k, parent |-> p, readable |-> r, writable |-> w, data |-> d]

\* What stops the path from being resolved, "none" if nothing does
ResolveError(f) ==
    CASE f.parent = "nosearch" -> "PermissionError"
      [] f.parent = "notdir"   -> "NotADirectoryError"
      [] f.parent = "missing"  -> "FileNotFoundError"
      [] OTHER                 -> "none"

\* The exception open(path, 'r') raises, "none" when it succeeds.  The
\* permission is checked before the kind: a directory the process may
\* not read gives PermissionError, a readable one IsADirectoryError.
ReadError(f) ==
    IF ResolveError(f) # "none" THEN ResolveError(f)
    ELSE CASE f.kind = "absent" -> "FileNotFoundError"
           [] f.kind = "dir"    -> IF f.readable THEN "IsADirectoryError"
                                   ELSE "PermissionError"
           [] OTHER             -> IF f.readable THEN "none" ELSE "PermissionError"

\* The exception open(path, 'w') raises, "none" when it succeeds.  A
\* directory gives IsADirectoryError whatever its permissions.
WriteError(f) ==
    IF ResolveError(f) # "none" THEN ResolveError(f)
    ELSE CASE f.kind = "absent" -> IF f.parent = "ok" THEN "none" ELSE "PermissionError"
           [] f.kind = "dir"    -> "IsADirectoryError"
           [] OTHER             -> IF f.writable THEN "none" ELSE "PermissionError"

\* open(path, 'r') succeeds
CanRead(f) == ReadError(f) = "none"

\* open(path, 'w') succeeds
CanWrite(f) == WriteError(f) = "none"

\* The number of bytes at which the text layer of a file object passes
\* what it keeps on to its buffer
ChunkSize == 8192

\* The st_blksize a file can have: open() gives the file object a buffer
\* of that size.
BlockSizes == {4096, 2097152}

\* f.write of n bytes to a fresh file object with a buffer of blk bytes
\* hands them to the file: the text layer passes them on from ChunkSize
\* up, and the buffer keeps what fits in it.
ReachesFile(n, blk) == n >= ChunkSize /\ n > blk

\* The file right after open(path, 'w'): created if absent, truncated.
Truncated(f) ==
    IF f.kind = "absent" THEN File("file", f.parent, TRUE, TRUE, <<>>)
    ELSE [f EXCEPT !.data = <<>>]

(* ------------------------------------------------------------------ *)
(* filter_report: the transformation of the text                       *)
(* ------------------------------------------------------------------ *)

\* Variant: the marker is looked for at the start of the block only.
IsMagicValueAtStart(part) ==
    Len(part) >= Len(MARK) /\ SubSeq(part, 1, Len(MARK)) = MARK

\* "#### Magic value" in part
IsMagicValue(part) == Contains(part, MARK)

\* Variant: break where the loop has continue.
RECURSIVE FilterLoopBreak(_, _, _, _)
FilterLoopBreak(ps, i, kept, count) ==
    IF i > Len(ps) THEN [kept_parts |-> kept, magic_value_count |-> count]
    ELSE IF Contains(ps[i], MARK)
         THEN [kept_parts |-> kept, magic_value_count |-> count + 1]
         ELSE FilterLoopBreak(ps, i + 1, Append(kept, ps[i]), count)

\* The for loop over enumerate(parts), from index i on, with the
\* kept_parts and magic_value_count built so far.
RECURSIVE FilterLoop(_, _, _, _)
FilterLoop(ps, i, kept, count) ==
    IF i > Len(ps) THEN [kept_parts |-> kept, magic_value_count |-> count]
    ELSE IF IsMagicValue(ps[i])
         THEN FilterLoop(ps, i + 1, kept, count + 1)
         ELSE FilterLoop(ps, i + 1, Append(kept, ps[i]), count)

\* f"- **Issues Found:** {n}"
SummaryLine(n) == LABEL \o Str(n)

\* Variant: match.group(1) without the test of match.
SummaryUpdateUnguarded(text, count) ==
    LET m == ReSearch(text)
    IN IF ~m.found THEN [error |-> "AttributeError", match |-> m, text |-> text]
       ELSE [error |-> "none", match |-> m,
             text |-> Replace(text, SummaryLine(ParseInt(m.group1)),
                                    SummaryLine(ParseInt(m.group1) - count))]

\* The most digits int() converts (sys.get_int_max_str_digits() of the
\* interpreter)
IntMaxStrDigits == 4300

\* The update of the summary count: search, int(), subtraction, replace.
\* int() raises ValueError on more digits than the interpreter's limit
\* for integer strings.
SummaryUpdate(text, count) ==
    LET m == ReSearch(text)
    IN IF ~m.found THEN [error |-> "none", match |-> m, text |-> text]
       ELSE IF Len(m.group1) > IntMaxStrDigits
            THEN [error |-> "ValueError", match |-> m, text |-> text]
            ELSE LET original_count == ParseInt(m.group1)
                     new_count == original_count - count
                 IN [error |-> "none", match |-> m,
                     text |-> Replace(text, SummaryLine(original_count),
                                            SummaryLine(new_count))]

\* The locals of filter_report after the transformation of content.
Transform(text) ==
    LET ps == Split(text, SEP)
        loop == FilterLoop(ps, 1, <<>>, 0)
        upd == SummaryUpdate(Join(SEP, loop.kept_parts), loop.magic_value_count)
    IN [parts |-> ps,
        kept_parts |-> loop.kept_parts,
        magic_value_count |-> loop.magic_value_count,
        match |-> upd.match,
        new_content |-> upd.text,
        error |-> upd.error]

\* print(f"Removed {magic_value_count} magic value issues.")
RemovedLine(count) == <<"Removed ", Str(count), " magic value issues.">>

\* print("Usage: python clean_report.py <input> <output>")
UsageLine == <<"Usage: python clean_report.py <input> <output>">>

(* ------------------------------------------------------------------ *)
(* State                                                               *)
(* ------------------------------------------------------------------ *)

VARIABLES
    argv,               \* sys.argv
    fs,                 \* the file system: path -> File
    fs0,                \* the file system when the process started
    blksize,            \* st_blksize of the file open(output_path, 'w') opens
    pc,                 \* the statement the process is at
    input_path,         \* parameters of filter_report
    output_path,
    content,            \* locals of filter_report
    parts,
    kept_parts,
    magic_value_count,
    match,
    new_content,
    buffer,             \* what f.write has handed to the output file object
    stdout,             \* the lines printed
    error,              \* the exception that ended the process, or "none"
    exit_status,        \* <<>> while running, <<code>> once exited
    trace               \* the file and print operations done, in order

vars == <<argv, fs, fs0, blksize, pc, input_path, output_path, content, parts, kept_parts,
          magic_value_count, match, new_content, buffer, stdout, error,
          exit_status, trace>>

locals == <<content, parts, kept_parts, magic_value_count, match, new_content>>

Paths == {"a", "b"}

Program == "clean_report.py"

NoMatch == [found |-> FALSE, start |-> 0, group1 |-> <<>>]

\* Sequences over S of length at most n
SeqsUpTo(S, n) == UNION {[1..k -> S] : k \in 0..n}

RECURSIVE Flatten(_)
Flatten(ss) == IF ss = <<>> THEN <<>> ELSE ss[1] \o Flatten(Tail(ss))

\* The state of the locals and outputs before anything ran
Fresh ==
    /\ input_path = ""
    /\ output_path = ""
    /\ content = <<>>
    /\ parts = <<>>
    /\ kept_parts = <<>>
    /\ magic_value_count = 0
    /\ match = NoMatch
    /\ new_content = <<>>
    /\ buffer = <<>>
    /\ stdout = <<>>
    /\ error = "none"
    /\ exit_status = <<>>
    /\ trace = <<>>

(* ------------------------------------------------------------------ *)
(* SpecFilter: filter_report as a function of the input file           *)
(* ------------------------------------------------------------------ *)

\* The pieces the input files are built from
\* (bytes): the label, a summary line, the marker, the separator, the
\* digits '0' and '1', the number '01', a carriage return, the UTF-8
\* bytes of the Arabic-Indic digit three (U+0663), and a byte that is not
\* UTF-8.
Tokens ==
    {LABEL, SummaryLine(1), MARK, SEP, ZERO, <<49>>, <<48, 49>>, CR, <<217, 163>>, <<255>>}

InputTexts == {Flatten(ts) : ts \in SeqsUpTo(Tokens, MaxTokens)}

\* One whole call filter_report(inp, outp) on file system fsys: the
\* file system, locals and outputs it ends with.
FilterReport(fsys, inp, outp) ==
    LET none == [parts |-> <<>>, kept_parts |-> <<>>, magic_value_count |-> 0,
                 match |-> NoMatch, new_content |-> <<>>, error |-> "none"]
    IN IF ~CanRead(fsys[inp])
       THEN [fs |-> fsys, content |-> <<>>, t |-> none, buffer |-> <<>>,
             stdout |-> <<>>, error |-> ReadError(fsys[inp]), trace |-> <<>>]
       ELSE IF ~Decodable(fsys[inp].data)
       THEN [fs |-> fsys, content |-> <<>>, t |-> none, buffer |-> <<>>,
             stdout |-> <<>>, error |-> "UnicodeDecodeError",
             trace |-> <<"open_in", "close_in">>]
       ELSE LET text == ReadText(fsys[inp].data)
            IN LET t == Transform(text)
            IN IF t.error # "none"
               THEN [fs |-> fsys, content |-> text, t |-> t, buffer |-> <<>>,
                     stdout |-> <<>>, error |-> t.error,
                     trace |-> <<"open_in", "read", "close_in", "transform">>]
               ELSE IF ~CanWrite(fsys[outp])
               THEN [fs |-> fsys, content |-> text, t |-> t, buffer |-> <<>>,
                     stdout |-> <<RemovedLine(t.magic_value_count)>>,
                     error |-> WriteError(fsys[outp]),
                     trace |-> <<"open_in", "read", "close_in", "transform", "print">>]
               ELSE [fs |-> [fsys EXCEPT ![outp] =
                                [Truncated(@) EXCEPT !.data = WriteText(t.new_content)]],
                     content |-> text, t |-> t,
                     buffer |-> <<>>,
                     stdout |-> <<RemovedLine(t.magic_value_count)>>,
                     error |-> "none",
                     trace |-> <<"open_in", "read", "close_in", "transform",
                                 "print", "open_out", "write", "close_out">>]

InitFilter ==
    /\ \E text \in InputTexts :
          fs = [p \in Paths |-> IF p = "a" THEN File("file", "ok", TRUE, TRUE, text)
                                ELSE File("absent", "ok", FALSE, FALSE, <<>>)]
    /\ fs0 = fs
    /\ blksize = 4096         \* a whole call does not depend on it
    /\ argv = <<Program, "a", "b">>
    /\ pc = "pass1"
    /\ Fresh

\* filter_report(inp, outp), start to end
Pass(inp, outp, next) ==
    \E r \in {FilterReport(fs, inp, outp)} :
       /\ fs' = r.fs
       /\ input_path' = inp
       /\ output_path' = outp
       /\ content' = r.content
       /\ parts' = r.t.parts
       /\ kept_parts' = r.t.kept_parts
       /\ magic_value_count' = r.t.magic_value_count
       /\ match' = r.t.match
       /\ new_content' = r.t.new_content
       /\ buffer' = r.buffer
       /\ stdout' = stdout \o r.stdout
       /\ error' = r.error
       /\ trace' = r.trace
       /\ pc' = next
       /\ UNCHANGED <<argv, fs0, blksize, exit_status>>

\* The first run: a -> b
Pass1 == pc = "pass1" /\ Pass("a", "b", "pass2")

\* The second run, on the output of the first: b -> a
Pass2 == pc = "pass2" /\ Pass("b", "a", "done")

NextFilter == Pass1 \/ Pass2

SpecFilter == InitFilter /\ [][NextFilter]_vars

(* ------------------------------------------------------------------ *)
(* SpecRerun: filter_report run twice on reports with a summary line   *)
(* whose integer int() does not convert                                *)
(* ------------------------------------------------------------------ *)

\* A summary line with one digit more than int() converts: the label and
\* '1' repeated (as a tuple)
HugeLine ==
    LABEL \o SubSeq([i \in 1..(IntMaxStrDigits + 1) |-> 49], 1, IntMaxStrDigits + 1)

\* The pieces around the line: the label, the digit '0', the separator
\* and the marker
RerunTokens == {LABEL, ZERO, SEP, MARK}

\* The line, once, anywhere among at most MaxTokens pieces
RerunTexts ==
    UNION {{Flatten(SubSeq(ts, 1, k)) \o HugeLine \o Flatten(SubSeq(ts, k + 1, Len(ts))) :
               k \in 0..Len(ts)} : ts \in SeqsUpTo(RerunTokens, MaxTokens)}

InitRerun ==
    /\ \E text \in RerunTexts :
          fs = [p \in Paths |-> IF p = "a" THEN File("file", "ok", TRUE, TRUE, text)
                                ELSE File("absent", "ok", FALSE, FALSE, <<>>)]
    /\ fs0 = fs
    /\ blksize = 4096         \* a whole call does not depend on it
    /\ argv = <<Program, "a", "b">>
    /\ pc = "pass1"
    /\ Fresh

SpecRerun == InitRerun /\ [][NextFilter]_vars

(* ------------------------------------------------------------------ *)
(* Spec: the process, statement by statement                           *)
(* ------------------------------------------------------------------ *)

\* Scenario A of the report format: a header with the summary line, one
\* magic value issue, one other issue:
\* "H\n- **Issues Found:** 3\n---\n#### Magic value\nfoo\n---\nOK"
ScenarioA ==
    <<72, 10>> \o SummaryLine(3) \o SEP \o LF \o MARK \o <<10, 102, 111, 111>>
        \o SEP \o <<10, 79, 75>>

\* A report without separator and without summary line: "H\r\nx"
Plain == <<72, 13, 10, 120>>

\* Bytes that are not UTF-8: 'a', 0xFF, 'b'
Undecodable == <<97, 255, 98>>

\* A report of ChunkSize bytes, 'x' repeated (as a tuple): the shortest
\* that the text layer of the file object passes on
Long == SubSeq([i \in 1..ChunkSize |-> 120], 1, ChunkSize)

FileTexts == {ScenarioA, Plain, Undecodable, Long}

\* What a path can be when the process starts
FileStates ==
    {File("absent", "ok", FALSE, FALSE, <<>>),
     File("absent", "readonly", FALSE, FALSE, <<>>),
     File("absent", "nosearch", FALSE, FALSE, <<>>),
     File("absent", "missing", FALSE, FALSE, <<>>),
     File("absent", "notdir", FALSE, FALSE, <<>>),
     File("dir", "ok", TRUE, TRUE, <<>>),
     File("dir", "ok", FALSE, TRUE, <<>>),           \* not readable
     File("file", "ok", FALSE, TRUE, Plain),         \* not readable
     File("file", "ok", TRUE, FALSE, ScenarioA)}     \* read-only
    \cup {File("file", "ok", TRUE, TRUE, d) : d \in FileTexts}

\* Variant: the comparison off by one.
UsageGuardOffByOne(av) == Len(av) <= 3

\* if len(sys.argv) < 3
UsageGuard(av) == Len(av) < 3

\* Variant: the output file is opened before the input file.
StepAfterOutFirst(p) ==
    CASE p = "call"      -> "open_out"
      [] p = "open_out"  -> "open_in"
      [] p = "open_in"   -> "read"
      [] p = "read"      -> "close_in"
      [] p = "close_in"  -> "transform"
      [] p = "transform" -> "print"
      [] p = "print"     -> "write"
      [] p = "write"     -> "close_out"
      [] p = "close_out" -> "return"

\* Variant: both files are opened by one with statement.
StepAfterOpenBoth(p) ==
    CASE p = "call"      -> "open_in"
      [] p = "open_in"   -> "open_out"
      [] p = "open_out"  -> "read"
      [] p = "read"      -> "close_in"
      [] p = "close_in"  -> "transform"
      [] p = "transform" -> "print"
      [] p = "print"     -> "write"
      [] p = "write"     -> "close_out"
      [] p = "close_out" -> "return"

\* The statement that follows statement p of the program, when p
\* completes without raising.
StepAfter(p) ==
    CASE p = "call"      -> "open_in"
      [] p = "open_in"   -> "read"
      [] p = "read"      -> "close_in"
      [] p = "close_in"  -> "transform"
      [] p = "transform" -> "print"
      [] p = "print"     -> "open_out"
      [] p = "open_out"  -> "write"
      [] p = "write"     -> "close_out"
      [] p = "close_out" -> "return"

Init ==
    /\ \E args \in SeqsUpTo(Paths, MaxArgs) : argv = <<Program>> \o args
    /\ fs \in [Paths -> FileStates]
    /\ fs0 = fs
    /\ blksize \in BlockSizes
    /\ pc = "main"
    /\ Fresh

\* An uncaught exception: traceback, exit status 1
Raise(e) ==
    /\ error' = e
    /\ exit_status' = <<1>>
    /\ pc' = "exited"

\* Lines 66-68: too few arguments
Usage ==
    /\ pc = "main"
    /\ UsageGuard(argv)
    /\ stdout' = Append(stdout, UsageLine)
    /\ exit_status' = <<1>>
    /\ pc' = "exited"
    /\ UNCHANGED <<argv, fs, fs0, blksize, input_path, output_path, locals,
                   buffer, error, trace>>

\* Line 70: filter_report(sys.argv[1], sys.argv[2])
Call ==
    /\ pc = "main"
    /\ ~UsageGuard(argv)
    /\ input_path' = argv[2]
    /\ output_path' = argv[3]
    /\ pc' = StepAfter("call")
    /\ UNCHANGED <<argv, fs, fs0, blksize, locals, buffer, stdout, error,
                   exit_status, trace>>

\* Line 5: open(input_path, 'r')
OpenInput ==
    /\ pc = "open_in"
    /\ CanRead(fs[input_path])
    /\ trace' = Append(trace, "open_in")
    /\ pc' = StepAfter("open_in")
    /\ UNCHANGED <<argv, fs, fs0, blksize, input_path, output_path, locals,
                   buffer, stdout, error, exit_status>>

OpenInputFails ==
    /\ pc = "open_in"
    /\ ~CanRead(fs[input_path])
    /\ Raise(ReadError(fs[input_path]))
    /\ UNCHANGED <<argv, fs, fs0, blksize, input_path, output_path, locals,
                   buffer, stdout, trace>>

\* Line 6: content = f.read()
ReadInput ==
    /\ pc = "read"
    /\ Decodable(fs[input_path].data)
    /\ content' = ReadText(fs[input_path].data)
    /\ trace' = Append(trace, "read")
    /\ pc' = StepAfter("read")
    /\ UNCHANGED <<argv, fs, fs0, blksize, input_path, output_path, parts,
                   kept_parts, magic_value_count, match, new_content, buffer,
                   stdout, error, exit_status>>

\* Line 6 raises; the with block of line 5 closes the file
ReadInputFails ==
    /\ pc = "read"
    /\ ~Decodable(fs[input_path].data)
    /\ Raise("UnicodeDecodeError")
    /\ trace' = Append(trace, "close_in")
    /\ UNCHANGED <<argv, fs, fs0, blksize, input_path, output_path, locals,
                   buffer, stdout>>

\* End of the with block of line 5
CloseInput ==
    /\ pc = "close_in"
    /\ trace' = Append(trace, "close_in")
    /\ pc' = StepAfter("close_in")
    /\ UNCHANGED <<argv, fs, fs0, blksize, input_path, output_path, locals,
                   buffer, stdout, error, exit_status>>

\* Lines 18-48
TransformStep ==
    /\ pc = "transform"
    /\ \E t \in {Transform(content)} :
          /\ parts' = t.parts
          /\ kept_parts' = t.kept_parts
          /\ magic_value_count' = t.magic_value_count
          /\ match' = t.match
          /\ new_content' = t.new_content
          /\ IF t.error = "none"
             THEN /\ pc' = StepAfter("transform")
                  /\ UNCHANGED <<error, exit_status>>
             ELSE Raise(t.error)
    /\ trace' = Append(trace, "transform")
    /\ UNCHANGED <<argv, fs, fs0, blksize, input_path, output_path, content,
                   buffer, stdout>>

\* Line 60
PrintCount ==
    /\ pc = "print"
    /\ stdout' = Append(stdout, RemovedLine(magic_value_count))
    /\ trace' = Append(trace, "print")
    /\ pc' = StepAfter("print")
    /\ UNCHANGED <<argv, fs, fs0, blksize, input_path, output_path, locals,
                   buffer, error, exit_status>>

\* Line 62: open(output_path, 'w')
OpenOutput ==
    /\ pc = "open_out"
    /\ CanWrite(fs[output_path])
    /\ fs' = [fs EXCEPT ![output_path] = Truncated(@)]
    /\ buffer' = <<>>
    /\ trace' = Append(trace, "open_out")
    /\ pc' = StepAfter("open_out")
    /\ UNCHANGED <<argv, fs0, blksize, input_path, output_path, locals,
                   stdout, error, exit_status>>

OpenOutputFails ==
    /\ pc = "open_out"
    /\ ~CanWrite(fs[output_path])
    /\ Raise(WriteError(fs[output_path]))
    /\ UNCHANGED <<argv, fs, fs0, blksize, input_path, output_path, locals,
                   buffer, stdout, trace>>

\* Line 63: f.write(new_content).  The file object keeps the bytes, or
\* hands them all to the file when they are too many for it.
WriteOutput ==
    /\ pc = "write"
    /\ \E bytes \in {buffer \o WriteText(new_content)} :
          IF ReachesFile(Len(bytes), blksize)
          THEN /\ fs' = [fs EXCEPT ![output_path].data = @ \o bytes]
               /\ buffer' = <<>>
          ELSE /\ buffer' = bytes
               /\ UNCHANGED fs
    /\ trace' = Append(trace, "write")
    /\ pc' = StepAfter("write")
    /\ UNCHANGED <<argv, fs0, blksize, input_path, output_path, locals,
                   stdout, error, exit_status>>

\* End of the with block of line 62: what the file object still keeps
\* reaches the file
CloseOutput ==
    /\ pc = "close_out"
    /\ fs' = [fs EXCEPT ![output_path].data = @ \o buffer]
    /\ buffer' = <<>>
    /\ trace' = Append(trace, "close_out")
    /\ pc' = StepAfter("close_out")
    /\ UNCHANGED <<argv, fs0, blksize, input_path, output_path, locals,
                   stdout, error, exit_status>>

\* filter_report returns; the script ends
Return ==
    /\ pc = "return"
    /\ exit_status' = <<0>>
    /\ pc' = "exited"
    /\ UNCHANGED <<argv, fs, fs0, blksize, input_path, output_path, locals,
                   buffer, stdout, error, trace>>

Next ==
    \/ Usage
    \/ Call
    \/ OpenInput
    \/ OpenInputFails
    \/ ReadInput
    \/ ReadInputFails
    \/ CloseInput
    \/ TransformStep
    \/ PrintCount
    \/ OpenOutput
    \/ OpenOutputFails
    \/ WriteOutput
    \/ CloseOutput
    \/ Return

Spec == Init /\ [][Next]_vars

(* ------------------------------------------------------------------ *)
(* Properties of filter_report (SpecFilter; C4 under SpecRerun)        *)
(* ------------------------------------------------------------------ *)

\* A call of filter_report has run; the locals are those of the last call.
AfterPass == pc \in {"pass2", "done"}

\* The last call read and decoded its input and reached line 18.
Transformed == AfterPass /\ Len(trace) >= 4 /\ trace[4] = "transform"

\* The last call ran to its end.
Completed == AfterPass /\ error = "none"

\* The bytes of the output file of the last call
Output == fs[output_path].data

\* The indices of the blocks that contain the marker
MarkedBlocks == {i \in 1..Len(parts) : Contains(parts[i], MARK)}

HasNoMarker(block) == ~Contains(block, MARK)

\* C1: the blocks are the pieces of the text between the occurrences of
\* '\n---'; the retained blocks are exactly the blocks without the marker
\* '#### Magic value', in their original order, the header block included;
\* the reported count is the number of blocks with the marker.
C1_PredicateCorrectness ==
    Transformed =>
        /\ Join(SEP, parts) = content
        /\ \A i \in 1..Len(parts) : ~Contains(parts[i], SEP)
        /\ kept_parts = SelectSeq(parts, HasNoMarker)
        /\ magic_value_count = Cardinality(MarkedBlocks)
        /\ stdout # <<>>
        /\ stdout[Len(stdout)] = RemovedLine(Cardinality(MarkedBlocks))

\* A run that removed the header block, whose marker is not at the
\* block's start, and kept two later blocks.
C1_Witness ==
    /\ pc = "pass2"
    /\ Completed
    /\ Len(parts) >= 3
    /\ Contains(parts[1], MARK)
    /\ SubSeq(parts[1], 1, Len(MARK)) # MARK
    /\ kept_parts # <<>>

\* The integer written after the label at index i of text t, with its sign
SummaryValueAt(t, i) ==
    LET j == i + Len(LABEL)
    IN IF j <= Len(t) /\ t[j] = MINUS[1] THEN 0 - ParseInt(DigitRun(t, j + 1))
       ELSE ParseInt(DigitRun(t, j))

\* Text t has a summary line at index i
HasSummaryAt(t, i) ==
    LET j == i + Len(LABEL)
    IN /\ j - 1 <= Len(t)
       /\ SubSeq(t, i, j - 1) = LABEL
       /\ \/ DigitRun(t, j) # <<>>
          \/ (j <= Len(t) /\ t[j] = MINUS[1] /\ DigitRun(t, j + 1) # <<>>)

\* The text of the output file of the last call
OutputText == Decode(Output).text

\* C2: when the rejoined text has the summary line with value C (any
\* decimal spelling, leading zeros included), the summary line of the
\* written output carries C - removedCount.
C2_CountArithmetic ==
    (Completed /\ match.found) =>
        /\ HasSummaryAt(OutputText, match.start)
        /\ SummaryValueAt(OutputText, match.start)
              = ParseInt(match.group1) - magic_value_count

\* s.replace(old, new, 1): the first occurrence only
ReplaceFirst(s, old, new) ==
    LET i == Find(s, old, 1)
    IN IF i = 0 THEN s
       ELSE SubSeq(s, 1, i - 1) \o new \o From(s, i + Len(old))

\* C3: the written output is the '\n---'-join of the retained blocks with
\* only the first literal occurrence of the original summary line (label
\* and original integer) replaced; every other byte, later occurrences of
\* the same line included, is unchanged.
C3_OnlyFirstOccurrence ==
    Completed =>
        OutputText =
            IF match.found
            THEN ReplaceFirst(Join(SEP, kept_parts),
                              SummaryLine(ParseInt(match.group1)),
                              SummaryLine(ParseInt(match.group1) - magic_value_count))
            ELSE Join(SEP, kept_parts)

\* The first run wrote its output file.
FirstRunWrote == fs["b"].kind = "file"

\* C4: for every input, the second run, on the output of the first,
\* reports 0 removed blocks and writes bytes identical to its input; it
\* keeps every block of it.
C4_Idempotence ==
    (pc = "done" /\ FirstRunWrote) =>
        /\ error = "none"
        /\ magic_value_count = 0
        /\ stdout[2] = RemovedLine(0)
        /\ kept_parts = parts
        /\ fs["a"].data = fs["b"].data

\* The first block holds the summary line
WellFormed == parts # <<>> /\ ReSearch(parts[1]).found

\* C5 as stated: on a well-formed input, retained blocks plus removed
\* blocks number one less than the blocks of the input.
C5_ConservationMinusHeader ==
    (Transformed /\ WellFormed) =>
        Len(kept_parts) + magic_value_count = Len(parts) - 1

\* C5, amended: retained blocks plus removed blocks number exactly the
\* blocks of the input, the header block counted like any other.
C5_Conservation ==
    Transformed =>
        /\ Len(parts) >= 1
        /\ Len(kept_parts) + magic_value_count = Len(parts)

\* A well-formed report some of whose blocks were removed and some kept
C5_Witness ==
    /\ pc = "pass2"
    /\ Transformed
    /\ WellFormed
    /\ Len(parts) >= 3
    /\ magic_value_count >= 1
    /\ Len(kept_parts) >= 2

\* C6: when no block of the input contains the marker, the run reports 0
\* removed blocks and the output file is byte-identical to the input file.
C6_RoundTrip ==
    (pc = "pass2" /\ Completed /\ MarkedBlocks = {}) =>
        /\ magic_value_count = 0
        /\ Output = fs0["a"].data

\* C7: when the rejoined text has no summary line, the run raises nothing,
\* prints the number of removed blocks and writes exactly the
\* '\n---'-join of the retained blocks.
C7_PatternNotFound ==
    (Transformed /\ ~ReSearch(Join(SEP, kept_parts)).found) =>
        /\ error = "none"
        /\ stdout # <<>>
        /\ stdout[Len(stdout)] = RemovedLine(Cardinality(MarkedBlocks))
        /\ fs[output_path].kind = "file"
        /\ Decodable(Output)
        /\ OutputText = Join(SEP, kept_parts)

\* A run without summary line in the rejoined text that removed a block
\* and kept two.
C7_Witness ==
    /\ pc = "pass2"
    /\ Transformed
    /\ ~match.found
    /\ magic_value_count >= 1
    /\ Len(kept_parts) >= 2
    /\ OutputText = Join(SEP, kept_parts)

(* ------------------------------------------------------------------ *)
(* Properties of the process (Spec)                                    *)
(* ------------------------------------------------------------------ *)

FullTrace == <<"open_in", "read", "close_in", "transform", "print",
               "open_out", "write", "close_out">>

IsPrefix(s, t) == Len(s) <= Len(t) /\ SubSeq(t, 1, Len(s)) = s

\* C8: with fewer than two path arguments the process prints the usage
\* line and exits non-zero without calling filter_report and without any
\* file operation; with two or more it calls filter_report on the first
\* two and exits 0 only after the output is written and the count printed.
C8_Usage ==
    /\ Len(argv) < 3 =>
          /\ pc \in {"main", "exited"}
          /\ input_path = "" /\ output_path = ""
          /\ trace = <<>>
          /\ fs = fs0
          /\ pc = "exited" => (stdout = <<UsageLine>> /\ exit_status # <<0>>)
    /\ Len(argv) >= 3 =>
          /\ pc # "main" => (input_path = argv[2] /\ output_path = argv[3])
          /\ \A i \in 1..Len(stdout) : stdout[i] # UsageLine
          /\ (pc = "exited" /\ error = "none") => exit_status = <<0>>
          /\ exit_status = <<0>> =>
                /\ trace = FullTrace
                /\ stdout = <<RemovedLine(magic_value_count)>>
                /\ fs[output_path].kind = "file"
                /\ fs[output_path].data = WriteText(new_content)

\* The process started with one path argument has exited.
C8_Witness ==
    /\ Len(argv) = 2
    /\ pc = "exited"
    /\ stdout = <<UsageLine>>
    /\ exit_status = <<1>>

\* The input file cannot be opened for reading, or its bytes cannot be
\* decoded.
InputUnreadable(f) == ~CanRead(f) \/ ~Decodable(f.data)

\* C9: when the input path is missing or unreadable, the run ends with a
\* fatal error before any processing: the file system is as it was (the
\* output path neither created nor truncated nor written), nothing is
\* printed and no local but the unread content exists.
C9_ReadFailure ==
    (Len(argv) >= 3 /\ InputUnreadable(fs0[argv[2]])) =>
        /\ fs = fs0
        /\ stdout = <<>>
        /\ IsPrefix(trace, <<"open_in", "close_in">>)
        /\ locals = <<<<>>, <<>>, <<>>, 0, NoMatch, <<>>>>
        /\ pc \in {"main", "open_in", "read", "exited"}
        /\ pc = "exited" =>
              /\ error = IF CanRead(fs0[argv[2]]) THEN "UnicodeDecodeError"
                         ELSE ReadError(fs0[argv[2]])
              /\ error # "none"
              /\ exit_status = <<1>>

\* The run failed on a missing input while the output path names an
\* existing, writable file with content.
C9_Witness ==
    /\ pc = "exited"
    /\ error = "FileNotFoundError"
    /\ trace = <<>>
    /\ input_path # output_path
    /\ CanWrite(fs0[output_path])
    /\ fs[output_path].data # <<>>

\* C10: the steps of a call occur in the order open/read/close input,
\* transform, print, open/write/close output, each once (a read that
\* raises closes the input and ends the run); the output written is the
\* filtered form of the input as it was when the process started, also
\* when both paths name one file; a failure to open the output comes
\* after the count was printed and leaves the files as they were.
C10_Order ==
    /\ \/ IsPrefix(trace, FullTrace)
       \/ trace = <<"open_in", "close_in">> /\ error = "UnicodeDecodeError"
    /\ exit_status = <<0>> =>
          /\ trace = FullTrace
          /\ content = ReadText(fs0[input_path].data)
          /\ fs[output_path].data = WriteText(Transform(ReadText(fs0[input_path].data)).new_content)
    /\ (pc = "exited" /\ error # "none" /\ CanRead(fs0[argv[2]])
            /\ Decodable(fs0[argv[2]].data)) =>
          /\ error = WriteError(fs0[argv[3]])
          /\ trace = SubSeq(FullTrace, 1, 5)
          /\ stdout = <<RemovedLine(magic_value_count)>>
          /\ fs = fs0

\* A run that overwrote its own input file with the filtered report.
C10_Witness ==
    /\ exit_status = <<0>>
    /\ input_path = output_path
    /\ magic_value_count >= 1
    /\ fs[output_path].data # fs0[input_path].data

====
